---- MODULE Spec2Model ----
(***************************************************************************)
(* Model of cmd_pg_mongo (src/main.go): a one-shot program that copies     *)
(* PostgreSQL tables into MongoDB collections, one document per row.       *)
(*                                                                         *)
(* The program is sequential.  Every call that can block or fail           *)
(* (pgConn.Query, rows.Next, rows.Scan, rows.Err, InsertOne) is one        *)
(* action; the driver's failure of such a call is a nondeterministic       *)
(* choice.  log.Fatalf ends the process with exit status 1.                *)
(***************************************************************************)
EXTENDS Integers, Sequences, FiniteSets, TLC

\* ---------------------------------------------------------------- bounds
MaxRows == 2    \* rows held by the largest source table
MaxPre  == 1    \* documents a destination collection may hold beforehand
MaxRuns == 2    \* times the program is started against the same stores

\* ------------------------------------------------------------ source data
\* Base tables of the source database, and a name that is no table there.
SrcTables  == {"a", "b", "c"}
TableNames == SrcTables \cup {"ghost"}

\* RawValue: what pgx puts into an interface{} (nil, int, string, ...).
\* Text values are numbered; text number 0 is the empty string.
Null      == [kind |-> "null", v |-> 0]
IntVal(n) == [kind |-> "int",  v |-> n]
Text(n)   == [kind |-> "text", v |-> n]

\* rows.FieldDescriptions() of "SELECT * FROM t": the column names.
FieldDescriptions(t) ==
    IF t = "a" THEN <<"id", "name", "deleted_at">>
    ELSE IF t = "b" THEN <<"id">>
    ELSE <<"k", "v">>

\* Cell c of row r: a key, then a mix of nulls, empty strings and texts.
Cell(shift, r, c) ==
    IF c = 1 THEN IntVal(r)
    ELSE IF (r + 2 * c + shift) % 3 = 0 THEN Null
    ELSE IF (r + 2 * c + shift) % 3 = 1 THEN Text(0)
    ELSE Text(r)

RowOf(t, shift, r) == [c \in 1..Len(FieldDescriptions(t)) |-> Cell(shift, r, c)]

\* A source database: "a" holds n rows, "b" one row, "c" none.
MakeData(n, shift) ==
    [t \in SrcTables |->
        IF t = "a" THEN [r \in 1..n |-> RowOf(t, shift, r)]
        ELSE IF t = "b" THEN <<RowOf(t, shift, 1)>>
        ELSE <<>>]

DataSets == {MakeData(n, s) : n \in 0..MaxRows, s \in 0..1}

\* A document some earlier writer left in a collection.
OldDoc == <<[Key |-> "_legacy", Value |-> Text(0)]>>
PreDocs(n) == [i \in 1..n |-> OldDoc]

\* The configurations read by loadConfig: postgres.tables.
ExplicitLists == {<<"a", "b", "c">>, <<"b", "ghost", "a">>, <<>>}
\* Orders in which information_schema.tables may report the base tables.
CatalogOrders == {<<"a", "b", "c">>, <<"c", "a", "b">>}

VARIABLES
    AllTables,      \* config.Postgres.AllTables
    configTables,   \* postgres.tables as loadConfig read it
    Tables,         \* config.Postgres.Tables (overwritten by discovery)
    catalog,        \* the catalog's base tables, in reported order
    pgData,         \* source rows of every base table
    mongoData,      \* destination: collection name -> documents, in order
    pc,             \* position of the process
    tableIdx,       \* main's range loop: tables already handed to fetch
    tables,         \* getAllPostgresTables: names appended so far
    rowIdx,         \* rows the open cursor has yielded
    iterErr,        \* the error rows.Err() will return ("nil" if none)
    document,       \* bson.D built for the current row
    err,            \* error returned to main ("nil" if none)
    out,            \* lines printed / logged by this process
    exitCode,       \* -1 while running, else the process exit status
    run,            \* number of the current process start
    history,        \* per finished run: exit status and collection sizes
    mongoAtStart,   \* mongoData when this process started
    opened,         \* tables whose SELECT was issued, in order
    writerCalls,    \* InsertOne invocations per collection, this process
    catalogQueried, \* the catalog query has been issued by this process
    cancelRequested,\* an external cancellation request was raised
    cancelTable,    \* table that was streaming when it was raised
    cancelRow,      \* rows that table had yielded when it was raised
    callsSinceCancel \* InsertOne invocations since it was raised

vars == <<AllTables, configTables, Tables, catalog, pgData, mongoData, pc,
          tableIdx, tables, rowIdx, iterErr, document, err, out, exitCode,
          run, history, mongoAtStart, opened, writerCalls, catalogQueried,
          cancelRequested, cancelTable, cancelRow, callsSinceCancel>>

\* Left alone by every step of the process.
env == <<AllTables, configTables, catalog, pgData, run, history, mongoAtStart>>
cancelVars == <<cancelRequested, cancelTable, cancelRow, callsSinceCancel>>

NoCalls == [t \in TableNames |-> 0]

Init ==
    /\ AllTables \in BOOLEAN
    /\ configTables \in ExplicitLists
    /\ Tables = configTables
    /\ catalog \in CatalogOrders
    /\ pgData \in DataSets
    /\ \E n \in 0..MaxPre : mongoData = [t \in TableNames |-> PreDocs(n)]
    /\ pc = "main"
    /\ tableIdx = 0
    /\ tables = <<>>
    /\ rowIdx = 0
    /\ iterErr = "nil"
    /\ document = <<>>
    /\ err = "nil"
    /\ out = <<>>
    /\ exitCode = -1
    /\ run = 1
    /\ history = <<>>
    /\ mongoAtStart = mongoData
    /\ opened = <<>>
    /\ writerCalls = NoCalls
    /\ catalogQueried = FALSE
    /\ cancelRequested = FALSE
    /\ cancelTable = ""
    /\ cancelRow = 0
    /\ callsSinceCancel = 0

\* The table the range loop is on.
table == Tables[tableIdx]

Line(kind, t, cause) == [kind |-> kind, table |-> t, cause |-> cause]

\* Variables of one process, grouped by who writes them.
discVars == <<Tables, tables, catalogQueried>>
loopVars == <<tableIdx, opened>>
rowVars  == <<rowIdx, document>>
destVars == <<mongoData, writerCalls>>
endVars  == <<out, exitCode>>

\* ------------------------------------------------------- Document Builder
\* main.go:185,197-199  document = append(document, bson.E{Key, Value}),
\* one entry per field, in field order.
RECURSIVE AppendFields(_, _, _, _)
AppendFields(doc, fields, columnValues, i) ==
    IF i > Len(fields) THEN doc
    ELSE AppendFields(Append(doc, [Key |-> fields[i], Value |-> columnValues[i]]),
                      fields, columnValues, i + 1)

\* A builder that stores a nil value as an empty string.
BuildDocumentNullAsEmpty(fields, columnValues) ==
    [i \in 1..Len(fields) |->
        [Key |-> fields[i],
         Value |-> IF columnValues[i] = Null THEN Text(0) ELSE columnValues[i]]]

BuildDocument(fields, columnValues) == AppendFields(<<>>, fields, columnValues, 1)

\* main.go:181-192  rows.Scan(columnPointers...): every column is decoded
\* into its own interface{} slot, a NULL as nil.
ScanValues(row, n) == [i \in 1..n |-> row[i]]

\* ------------------------------------------------------------------ main
\* main.go:59  if config.Postgres.AllTables { ... }
MainResolve ==
    /\ pc = "main"
    /\ pc' = IF AllTables THEN "catQuery" ELSE "loop"
    /\ UNCHANGED <<env, cancelVars, discVars, loopVars, rowVars, destVars,
                   endVars, iterErr, err>>

\* main.go:141-145  rows, err := pgConn.Query(ctx, query) on the catalog.
CatalogQuery ==
    /\ pc = "catQuery"
    /\ catalogQueried' = TRUE
    /\ tables' = <<>>
    /\ \/ /\ pc' = "catNext"
          /\ err' = "nil"
       \/ /\ pc' = "discFatal"
          /\ err' = "catalog query"
    /\ UNCHANGED <<env, cancelVars, Tables, loopVars, rowVars, destVars,
                   endVars, iterErr>>

\* main.go:148  for rows.Next(): a name is ready, the list is exhausted, or
\* the connection broke (Next is false and rows.Err() is set).
CatalogNext ==
    /\ pc = "catNext"
    /\ \/ /\ Len(tables) < Len(catalog)
          /\ pc' = "catScan"
          /\ iterErr' = "nil"
       \/ /\ Len(tables) = Len(catalog)
          /\ pc' = "catErr"
          /\ iterErr' = "nil"
       \/ /\ pc' = "catErr"
          /\ iterErr' = "catalog iterate"
    /\ UNCHANGED <<env, cancelVars, discVars, loopVars, rowVars, destVars,
                   endVars, err>>

\* main.go:149-153  rows.Scan(&tableName); tables = append(tables, tableName)
CatalogScan ==
    /\ pc = "catScan"
    /\ \/ /\ tables' = Append(tables, catalog[Len(tables) + 1])
          /\ pc' = "catNext"
          /\ err' = "nil"
       \/ /\ tables' = tables
          /\ pc' = "discFatal"
          /\ err' = "catalog scan"
    /\ UNCHANGED <<env, cancelVars, Tables, catalogQueried, loopVars, rowVars,
                   destVars, endVars, iterErr>>

\* A resolution that adds the discovered names to the configured list.
CatalogRowsErrMerges ==
    /\ pc = "catErr"
    /\ IF iterErr # "nil"
       THEN /\ err' = iterErr
            /\ pc' = "discFatal"
            /\ Tables' = Tables
       ELSE /\ err' = "nil"
            /\ pc' = "loop"
            /\ Tables' = Tables \o tables
    /\ UNCHANGED <<env, cancelVars, tables, catalogQueried, loopVars, rowVars,
                   destVars, endVars, iterErr>>

\* main.go:156-160 and 65  rows.Err(); return tables, nil;
\* config.Postgres.Tables = tables
CatalogRowsErr ==
    /\ pc = "catErr"
    /\ IF iterErr # "nil"
       THEN /\ err' = iterErr
            /\ pc' = "discFatal"
            /\ Tables' = Tables
       ELSE /\ err' = "nil"
            /\ pc' = "loop"
            /\ Tables' = tables
    /\ UNCHANGED <<env, cancelVars, tables, catalogQueried, loopVars, rowVars,
                   destVars, endVars, iterErr>>

\* A discovery failure that is logged, after which the configured list is used.
DiscoveryFatalFallsBack ==
    /\ pc = "discFatal"
    /\ out' = Append(out, Line("fatal discovery", "", err))
    /\ exitCode' = exitCode
    /\ pc' = "loop"
    /\ UNCHANGED <<env, cancelVars, discVars, loopVars, rowVars, destVars,
                   iterErr, err>>

\* main.go:62-64  log.Fatalf("Error fetching table names ...")
DiscoveryFatal ==
    /\ pc = "discFatal"
    /\ out' = Append(out, Line("fatal discovery", "", err))
    /\ exitCode' = 1
    /\ pc' = "exit"
    /\ UNCHANGED <<env, cancelVars, discVars, loopVars, rowVars, destVars,
                   iterErr, err>>

\* main.go:69-70 and 76  the range loop takes the next table and calls
\* fetchDataFromPostgresAndInsertToMongo, or main returns.
MainLoop ==
    /\ pc = "loop"
    /\ IF tableIdx < Len(Tables)
       THEN /\ tableIdx' = tableIdx + 1
            /\ pc' = "query"
            /\ exitCode' = exitCode
       ELSE /\ tableIdx' = tableIdx
            /\ pc' = "exit"
            /\ exitCode' = 0
    /\ UNCHANGED <<env, cancelVars, discVars, opened, rowVars, destVars, out,
                   iterErr, err>>

\* main.go:168-172  pgConn.Query(ctx, "SELECT * FROM " + pgTableName).
\* A name that is no table of the source always fails here.
Query ==
    /\ pc = "query"
    /\ opened' = Append(opened, table)
    /\ rowIdx' = 0
    /\ \/ /\ table \in SrcTables
          /\ pc' = "next"
          /\ err' = "nil"
       \/ /\ pc' = "ret"
          /\ err' = "query"
    /\ UNCHANGED <<env, cancelVars, discVars, tableIdx, document, destVars,
                   endVars, iterErr>>

\* A loop that leaves the cursor one row before its end.
RowsNextStopsEarly ==
    /\ pc = "next"
    /\ \/ /\ rowIdx + 1 < Len(pgData[table])
          /\ rowIdx' = rowIdx + 1
          /\ pc' = "scan"
          /\ iterErr' = "nil"
       \/ /\ rowIdx + 1 >= Len(pgData[table])
          /\ rowIdx' = rowIdx
          /\ pc' = "rowsErr"
          /\ iterErr' = "nil"
       \/ /\ rowIdx' = rowIdx
          /\ pc' = "rowsErr"
          /\ iterErr' = "iterate"
    /\ UNCHANGED <<env, cancelVars, discVars, loopVars, document, destVars,
                   endVars, err>>

\* A loop whose context is cancelled by the request: Next is false and
\* rows.Err() is the context's error.
RowsNextHonoursCancel ==
    /\ pc = "next"
    /\ \/ /\ ~cancelRequested
          /\ rowIdx < Len(pgData[table])
          /\ rowIdx' = rowIdx + 1
          /\ pc' = "scan"
          /\ iterErr' = "nil"
       \/ /\ ~cancelRequested
          /\ rowIdx = Len(pgData[table])
          /\ rowIdx' = rowIdx
          /\ pc' = "rowsErr"
          /\ iterErr' = "nil"
       \/ /\ rowIdx' = rowIdx
          /\ pc' = "rowsErr"
          /\ iterErr' = IF cancelRequested THEN "cancelled" ELSE "iterate"
    /\ UNCHANGED <<env, cancelVars, discVars, loopVars, document, destVars,
                   endVars, err>>

\* main.go:178  for rows.Next(): a row is ready, the cursor is exhausted, or
\* the stream broke (Next is false and rows.Err() is set).
RowsNext ==
    /\ pc = "next"
    /\ \/ /\ rowIdx < Len(pgData[table])
          /\ rowIdx' = rowIdx + 1
          /\ pc' = "scan"
          /\ iterErr' = "nil"
       \/ /\ rowIdx = Len(pgData[table])
          /\ rowIdx' = rowIdx
          /\ pc' = "rowsErr"
          /\ iterErr' = "nil"
       \/ /\ rowIdx' = rowIdx
          /\ pc' = "rowsErr"
          /\ iterErr' = "iterate"
    /\ UNCHANGED <<env, cancelVars, discVars, loopVars, document, destVars,
                   endVars, err>>

\* A loop that skips a row it cannot scan and goes on with the next one.
RowsScanSkipsBadRow ==
    /\ pc = "scan"
    /\ \/ /\ LET fields == FieldDescriptions(table)
                 columnValues == ScanValues(pgData[table][rowIdx], Len(fields))
             IN  document' = BuildDocument(fields, columnValues)
          /\ pc' = "insert"
          /\ err' = "nil"
       \/ /\ document' = <<>>
          /\ pc' = "next"
          /\ err' = "nil"
    /\ UNCHANGED <<env, cancelVars, discVars, loopVars, rowIdx, destVars,
                   endVars, iterErr>>

\* main.go:180-199  scan the row into columnValues and build the document.
RowsScan ==
    /\ pc = "scan"
    /\ \/ /\ LET fields == FieldDescriptions(table)
                 columnValues == ScanValues(pgData[table][rowIdx], Len(fields))
             IN  document' = BuildDocument(fields, columnValues)
          /\ pc' = "insert"
          /\ err' = "nil"
       \/ /\ document' = <<>>
          /\ pc' = "ret"
          /\ err' = "scan"
    /\ UNCHANGED <<env, cancelVars, discVars, loopVars, rowIdx, destVars,
                   endVars, iterErr>>

\* A writer that puts the new document in front of the collection.
InsertOnePrepends ==
    /\ pc = "insert"
    /\ writerCalls' = [writerCalls EXCEPT ![table] = @ + 1]
    /\ callsSinceCancel' = IF cancelRequested THEN callsSinceCancel + 1
                           ELSE callsSinceCancel
    /\ \/ /\ mongoData' = [mongoData EXCEPT ![table] =
                              SubSeq(@, 1, Len(mongoAtStart[table])) \o <<document>>
                              \o SubSeq(@, Len(mongoAtStart[table]) + 1, Len(@))]
          /\ pc' = "next"
          /\ err' = "nil"
       \/ /\ mongoData' = mongoData
          /\ pc' = "ret"
          /\ err' = "insert"
    /\ UNCHANGED <<env, cancelRequested, cancelTable, cancelRow, discVars,
                   loopVars, rowVars, endVars, iterErr>>

\* A writer that replaces an equal document instead of adding one (upsert).
InsertOneUpserts ==
    /\ pc = "insert"
    /\ writerCalls' = [writerCalls EXCEPT ![table] = @ + 1]
    /\ callsSinceCancel' = IF cancelRequested THEN callsSinceCancel + 1
                           ELSE callsSinceCancel
    /\ \/ /\ mongoData' =
                IF \E i \in 1..Len(mongoData[table]) : mongoData[table][i] = document
                THEN mongoData
                ELSE [mongoData EXCEPT ![table] = Append(@, document)]
          /\ pc' = "next"
          /\ err' = "nil"
       \/ /\ mongoData' = mongoData
          /\ pc' = "ret"
          /\ err' = "insert"
    /\ UNCHANGED <<env, cancelRequested, cancelTable, cancelRow, discVars,
                   loopVars, rowVars, endVars, iterErr>>

\* main.go:175,201-205  mongoCollection.InsertOne(ctx, document) on the
\* collection named after the table: a new entry at the end, or an error.
InsertOne ==
    /\ pc = "insert"
    /\ writerCalls' = [writerCalls EXCEPT ![table] = @ + 1]
    /\ callsSinceCancel' = IF cancelRequested THEN callsSinceCancel + 1
                           ELSE callsSinceCancel
    /\ \/ /\ mongoData' = [mongoData EXCEPT ![table] = Append(@, document)]
          /\ pc' = "next"
          /\ err' = "nil"
       \/ /\ mongoData' = mongoData
          /\ pc' = "ret"
          /\ err' = "insert"
    /\ UNCHANGED <<env, cancelRequested, cancelTable, cancelRow, discVars,
                   loopVars, rowVars, endVars, iterErr>>

\* main.go:208-212  if err := rows.Err(); err != nil {...}; return nil
RowsErr ==
    /\ pc = "rowsErr"
    /\ err' = IF iterErr # "nil" THEN iterErr ELSE "nil"
    /\ pc' = "ret"
    /\ UNCHANGED <<env, cancelVars, discVars, loopVars, rowVars, destVars,
                   endVars, iterErr>>

\* main.go:71,74  err == nil: fmt.Printf("Data transfer ... completed
\* successfully."), then the next iteration.
MainCompleted ==
    /\ pc = "ret"
    /\ err = "nil"
    /\ out' = Append(out, Line("completed", table, "none"))
    /\ pc' = "loop"
    /\ UNCHANGED <<env, cancelVars, discVars, loopVars, rowVars, destVars,
                   exitCode, iterErr, err>>

\* A failure that is logged, after which the loop goes on with the next table.
MainFatalContinues ==
    /\ pc = "ret"
    /\ err # "nil"
    /\ out' = Append(out, Line("fatal transfer", table, err))
    /\ exitCode' = exitCode
    /\ pc' = "loop"
    /\ UNCHANGED <<env, cancelVars, discVars, loopVars, rowVars, destVars,
                   iterErr, err>>

\* A failure that is logged with log.Printf and a plain return: status 0.
MainFatalExitsZero ==
    /\ pc = "ret"
    /\ err # "nil"
    /\ out' = Append(out, Line("fatal transfer", table, err))
    /\ exitCode' = 0
    /\ pc' = "exit"
    /\ UNCHANGED <<env, cancelVars, discVars, loopVars, rowVars, destVars,
                   iterErr, err>>

\* main.go:71-73  err != nil: log.Fatalf("Error transferring data from table
\* ..."), which ends the process with status 1.
MainFatal ==
    /\ pc = "ret"
    /\ err # "nil"
    /\ out' = Append(out, Line("fatal transfer", table, err))
    /\ exitCode' = 1
    /\ pc' = "exit"
    /\ UNCHANGED <<env, cancelVars, discVars, loopVars, rowVars, destVars,
                   iterErr, err>>

\* ----------------------------------------------------------- environment
\* main.go:165  ctx := context.Background(): the context handed to Query and
\* InsertOne is never cancelled, so a cancellation request raised while a
\* table streams reaches no statement of the program.
RequestCancel ==
    /\ pc \in {"next", "scan", "insert"}
    /\ ~cancelRequested
    /\ cancelRequested' = TRUE
    /\ cancelTable' = table
    /\ cancelRow' = rowIdx
    /\ UNCHANGED <<env, callsSinceCancel, discVars, loopVars, rowVars, destVars,
                   endVars, pc, iterErr, err>>

Sizes(m) == [t \in TableNames |-> Len(m[t])]

\* main.go:34  the program is started again with the same configuration
\* against the same two stores.
Rerun ==
    /\ pc = "exit"
    /\ run < MaxRuns
    /\ run' = run + 1
    /\ history' = Append(history, [exit   |-> exitCode,
                                   before |-> Sizes(mongoAtStart),
                                   after  |-> Sizes(mongoData)])
    /\ mongoAtStart' = mongoData
    /\ Tables' = configTables
    /\ pc' = "main"
    /\ tableIdx' = 0
    /\ tables' = <<>>
    /\ rowIdx' = 0
    /\ iterErr' = "nil"
    /\ document' = <<>>
    /\ err' = "nil"
    /\ out' = <<>>
    /\ exitCode' = -1
    /\ opened' = <<>>
    /\ writerCalls' = NoCalls
    /\ catalogQueried' = FALSE
    /\ cancelRequested' = FALSE
    /\ cancelTable' = ""
    /\ cancelRow' = 0
    /\ callsSinceCancel' = 0
    /\ UNCHANGED <<AllTables, configTables, catalog, pgData, mongoData>>

Step ==
    \/ MainResolve
    \/ CatalogQuery
    \/ CatalogNext
    \/ CatalogScan
    \/ CatalogRowsErr
    \/ DiscoveryFatal
    \/ MainLoop
    \/ Query
    \/ RowsNext
    \/ RowsScan
    \/ InsertOne
    \/ RowsErr
    \/ MainCompleted
    \/ MainFatal

\* One start of the program, with cancellation requests from outside.
Next == Step \/ RequestCancel

Spec == Init /\ [][Next]_vars

\* The program started up to MaxRuns times.
NextRerun == Step \/ Rerun

SpecRerun == Init /\ [][NextRerun]_vars

\* ================================================================ claims
\* The document a source row stands for: one entry per column, the column's
\* name with the row's value at that position.
ExpectedDoc(t, r) ==
    [i \in 1..Len(FieldDescriptions(t)) |->
        [Key |-> FieldDescriptions(t)[i], Value |-> pgData[t][r][i]]]

ExpectedDocs(t, k) == [r \in 1..k |-> ExpectedDoc(t, r)]

\* The documents this process has added to collection t.
Written(t) == SubSeq(mongoData[t], Len(mongoAtStart[t]) + 1, Len(mongoData[t]))

IsPrefix(p, q) == Len(p) <= Len(q) /\ SubSeq(q, 1, Len(p)) = p

DiscoveryFailed == \E i \in 1..Len(out) : out[i].kind = "fatal discovery"
TransferFailed  == \E i \in 1..Len(out) : out[i].kind = "fatal transfer"
CompletedLine(t) == Line("completed", t, "none")
ReportedCompleted(t) == \E i \in 1..Len(out) : out[i] = CompletedLine(t)


\* ---------------------------------------------------------------- C1
\* C1 as stated: when a table's transfer fails, every table after it in the
\* list still has its cursor opened; the run is not aborted by the failure.
C1_ProceedsPastFailure ==
    (pc = "exit" /\ TransferFailed) =>
        \A j \in (tableIdx + 1)..Len(Tables) :
            \E i \in 1..Len(opened) : opened[i] = Tables[j]

\* C1 amended: a table's failure ends the run.  The failed table is the last
\* one opened and the only one reported failed, as the last line; every
\* table before it was completed and keeps all its documents; no table
\* after it is opened or written; the failed table keeps the documents of
\* the rows written before the failure.
C1_AbortsAtFirstFailure ==
    (TransferFailed \/ (pc = "ret" /\ err # "nil")) =>
        /\ opened = SubSeq(Tables, 1, tableIdx)
        /\ \A j \in 1..(tableIdx - 1) :
              /\ out[j] = CompletedLine(Tables[j])
              /\ Written(Tables[j]) = ExpectedDocs(Tables[j], Len(pgData[Tables[j]]))
        /\ \A j \in (tableIdx + 1)..Len(Tables) :
              /\ Written(Tables[j]) = <<>>
              /\ writerCalls[Tables[j]] = 0
        /\ TransferFailed =>
              /\ pc = "exit"
              /\ exitCode = 1
              /\ Len(out) = tableIdx
              /\ out[tableIdx] = Line("fatal transfer", table, err)
              /\ table \in SrcTables =>
                    IsPrefix(Written(table), ExpectedDocs(table, Len(pgData[table])))

\* Table B of [A, B, C] failed after one of its rows was written, A's
\* documents are in place, and the run has ended.
C1_Witness ==
    /\ pc = "exit"
    /\ TransferFailed
    /\ Len(Tables) = 3
    /\ tableIdx = 2
    /\ Len(Written(Tables[1])) >= 1
    /\ Len(Written(Tables[2])) >= 1

\* ---------------------------------------------------------------- C2
\* C2 as stated: a table reported completed had InsertOne invoked once per
\* row, and the report carries the number of rows transferred.
C2_ReportsRowCount ==
    \A i \in 1..Len(out) :
        out[i].kind = "completed" =>
            /\ writerCalls[out[i].table] = Len(pgData[out[i].table])
            /\ "rows" \in DOMAIN out[i]
            /\ out[i].rows = Len(pgData[out[i].table])

\* C2 amended: a table reported completed had InsertOne invoked exactly once
\* per row its cursor yielded, each adding one document; the completion line
\* names the table and carries no row count.
C2_RowCountConservation ==
    \A i \in 1..Len(out) :
        out[i].kind = "completed" =>
            /\ writerCalls[out[i].table] = Len(pgData[out[i].table])
            /\ Len(Written(out[i].table)) = Len(pgData[out[i].table])
            /\ DOMAIN out[i] = {"kind", "table", "cause"}

\* A table of at least two rows and a table of no rows are both completed.
C2_Witness ==
    /\ ReportedCompleted("a")
    /\ ReportedCompleted("c")
    /\ Len(pgData["a"]) >= 2
    /\ writerCalls["a"] = Len(pgData["a"])
    /\ writerCalls["c"] = 0

\* ---------------------------------------------------------------- C3
\* C3: the documents added to a collection are those of the cursor's rows in
\* cursor order, and a row is read only after the insert of the row before
\* it has returned: while row r is held, exactly rows 1..r-1 are written.
C3_WrittenInCursorOrder ==
    /\ \A t \in SrcTables : Written(t) = ExpectedDocs(t, Len(Written(t)))
    /\ pc = "next" => Len(Written(table)) = rowIdx
    /\ pc \in {"scan", "insert"} =>
          /\ rowIdx >= 1
          /\ Len(Written(table)) = rowIdx - 1
          /\ writerCalls[table] = rowIdx - 1

\* The second row is held for insertion and the first one is written.
C3_Witness ==
    /\ pc = "insert"
    /\ rowIdx = 2
    /\ Written(table) = <<ExpectedDoc(table, 1)>>
    /\ document = ExpectedDoc(table, 2)
    /\ document # ExpectedDoc(table, 1)

\* ---------------------------------------------------------------- C4
\* C4: the document handed to InsertOne has one entry per column, entry i
\* being (name of column i, value of column i); a null value is an entry
\* with its key and a null, not an empty string.
C4_ColumnFidelity ==
    pc = "insert" =>
        LET fields == FieldDescriptions(table)
            row    == pgData[table][rowIdx]
        IN  /\ Len(document) = Len(fields)
            /\ \A i \in 1..Len(fields) :
                  /\ document[i].Key = fields[i]
                  /\ document[i].Value = row[i]
                  /\ row[i] = Null => document[i].Value # Text(0)

\* A three-column row with a null and an empty string is built.
C4_Witness ==
    /\ pc = "insert"
    /\ Len(document) = 3
    /\ \E i \in 1..3 : document[i] = [Key |-> "deleted_at", Value |-> Null]
    /\ \E i \in 1..3 : document[i].Value = Text(0)

C6_OverallOutcome ==
    pc = "exit" =>
        /\ exitCode \in {0, 1}
        /\ exitCode = 0 <=>
              /\ ~DiscoveryFailed
              /\ Len(out) = Len(Tables)
              /\ \A j \in 1..Len(Tables) : out[j] = CompletedLine(Tables[j])
        /\ (exitCode = 1 /\ ~DiscoveryFailed) =>
              /\ out[Len(out)].kind = "fatal transfer"
              /\ \A j \in 1..(Len(out) - 1) :
                    /\ out[j] = CompletedLine(Tables[j])
                    /\ Len(Written(Tables[j])) = Len(pgData[Tables[j]])

\* The third table failed: status 1, with the two completion lines kept.
C6_Witness ==
    /\ pc = "exit"
    /\ exitCode = 1
    /\ Len(out) = 3
    /\ out[1].kind = "completed"
    /\ out[2].kind = "completed"
    /\ out[3].kind = "fatal transfer"

\* ---------------------------------------------------------------- C7
\* C7 as stated: after a cancellation request at most the row in hand is
\* written, and the run ends with the streaming table failed by
\* cancellation.
C7_CancelTakesEffect ==
    /\ callsSinceCancel <= 1
    /\ (cancelRequested /\ pc = "exit") =>
          out[Len(out)] = Line("fatal transfer", cancelTable, "cancelled")

\* C7 amended: the program has no cancellation.  A request raised while a
\* table streams changes nothing: no table ever ends with a cancellation
\* cause, and that table, when it is reported completed, has had every one
\* of its rows written; tables completed before keep their documents.
C7_CancelIgnored ==
    /\ \A i \in 1..Len(out) : out[i].cause # "cancelled"
    /\ err # "cancelled"
    /\ cancelRequested =>
          /\ ReportedCompleted(cancelTable) =>
                /\ writerCalls[cancelTable] = Len(pgData[cancelTable])
                /\ Written(cancelTable) =
                      ExpectedDocs(cancelTable, Len(pgData[cancelTable]))
          /\ \A i \in 1..Len(out) :
                out[i].kind = "completed" =>
                    Len(Written(out[i].table)) = Len(pgData[out[i].table])

\* Cancellation was requested before the first of two rows was read, and the
\* table was still transferred in full and reported completed.
C7_Witness ==
    /\ cancelRequested
    /\ cancelRow = 0
    /\ callsSinceCancel >= 2
    /\ Len(pgData[cancelTable]) >= 2
    /\ ReportedCompleted(cancelTable)

\* ---------------------------------------------------------------- C8
AllRunsClean ==
    /\ pc = "exit"
    /\ exitCode = 0
    /\ \A i \in 1..Len(history) : history[i].exit = 0

C9_DiscoveryFailureFatal ==
    /\ (pc = "discFatal" \/ DiscoveryFailed) =>
          /\ AllTables
          /\ opened = <<>>
          /\ writerCalls = NoCalls
          /\ mongoData = mongoAtStart
    /\ DiscoveryFailed => (pc = "exit" /\ exitCode = 1)

\* Reading a catalog row failed while the configuration listed three
\* existing tables; the run has ended.
C9_Witness ==
    /\ DiscoveryFailed
    /\ err = "catalog scan"
    /\ configTables = <<"a", "b", "c">>
    /\ Len(tables) >= 1
    /\ pc = "exit"

\* --------------------------------------------------------------- C10
\* C10: a scan or insert error ends the table's transfer: the documents
\* written for it are exactly those of the rows before the failing one,
\* InsertOne is not invoked for a row whose scan failed, and the cursor never
\* moves on past a row that was not written.
C10_StopsAtFirstError ==
    /\ pc = "next" =>
          /\ Len(Written(table)) = rowIdx
          /\ writerCalls[table] = rowIdx
    /\ (pc \in {"ret", "exit"} /\ err \in {"scan", "insert"}) =>
          /\ rowIdx >= 1
          /\ Written(table) = ExpectedDocs(table, rowIdx - 1)
          /\ writerCalls[table] = IF err = "scan" THEN rowIdx - 1 ELSE rowIdx
    /\ (pc \in {"ret", "exit"} /\ err = "iterate") =>
          /\ Written(table) = ExpectedDocs(table, rowIdx)
          /\ writerCalls[table] = rowIdx
    /\ pc = "exit" => ~ENABLED Step

\* The scan of a table's second row failed: the run has ended with only the
\* first row's document written.
C10_Witness ==
    /\ pc = "exit"
    /\ err = "scan"
    /\ rowIdx = 2
    /\ Written(table) = <<ExpectedDoc(table, 1)>>
    /\ writerCalls[table] = 1

====
